---------------------------- MODULE Spec2Model ----------------------------
(***************************************************************************)
(* A model of the Loader of graph-gophers/dataloader (src/dataloader.go):  *)
(* callers issue Load and invoke the Thunks they get back, Load starts a   *)
(* batch goroutine per window, batch starts a sleeper goroutine, and the   *)
(* sleeper seals the window.  Every goroutine is a little state machine    *)
(* whose steps are the statements of the source between two points where   *)
(* another goroutine can observe or change shared state.                   *)
(*                                                                         *)
(* Unsynchronised reads in the source (l.batching at dataloader.go:193,    *)
(* l.count at :212, l.input at :303, result.value at :173) are data races; *)
(* each is modelled as a separate step that reads whichever value is       *)
(* current when it is taken, so every value the read can return occurs.    *)
(* An unrecovered Go panic in any goroutine ends the process: crashed.     *)
(***************************************************************************)
EXTENDS Integers, Sequences, FiniteSets

\* ------------------------------------------------------------------ bounds
NumKeys == 3         \* distinct keys the callers load
MaxLoads == 3        \* Loader calls of a caller that is alone
MaxRaceLoads == 1    \* Loader calls of each of two callers that race
MaxThunkCalls == 2   \* Thunk invocations over the whole run
MaxCacheCalls == 4   \* Loader calls of a lone caller that also primes and clears

\* The client: one goroutine that calls Load back to back, as the tests do,
\* or two goroutines that call Load concurrently.
Callers == {1, 2}
Keys == 1..NumKeys
LoadBudgets == { [p \in Callers |-> IF p = 1 THEN MaxLoads ELSE 0],
                 [p \in Callers |-> MaxRaceLoads] }

\* WithBatchCapacity: 0 is unbounded (dataloader.go:51-52, 109-114); the
\* capacity of the test "responds to max batch size" is 2.
MaxBatchCap == 2
BatchCaps == {0, MaxBatchCap}

\* ----------------------------------------------------------------- results
\* Result (dataloader.go:34-37): Data and Error.  NilResult is the nil *Result.
NoError == "nil"
TestError == "this is a test error"
OneError == "always error on the first key"
NilResult == [Data |-> 0, Error |-> "<nil *Result>"]
Result(d, e) == [Data |-> d, Error |-> e]

\* The batch function a Loader is constructed with, one of those of the tests:
\* IDLoader, ErrorLoader, FaultyLoader (one result too few), PanicLoader, and
\* OneErrorLoader(max), whose result list is made with max entries
\* (`make([]*Result, max)`) and filled in for the keys, the first with an
\* error; max is also the Loader's batch capacity, here MaxBatchCap.
BatchFnKinds == {"identity", "error", "faulty", "panic", "oneerror"}

\* OneErrorLoader's `results[i] = ...` is out of range for a key beyond max;
\* PanicLoader always panics.
BatchFnPanics(kind, keys) ==
    \/ kind = "panic"
    \/ kind = "oneerror" /\ Len(keys) > MaxBatchCap

BatchFnResults(kind, keys) ==
    CASE kind = "identity" -> [i \in 1..Len(keys) |-> Result(keys[i], NoError)]
      [] kind = "error"    -> [i \in 1..Len(keys) |-> Result(keys[i], TestError)]
      [] kind = "oneerror" -> [i \in 1..MaxBatchCap |->
                                 IF i > Len(keys) THEN NilResult
                                 ELSE Result(keys[i], IF i = 1 THEN OneError ELSE NoError)]
      [] kind = "faulty"   -> [i \in 1..(IF Len(keys) = 0 THEN 0 ELSE Len(keys) - 1) |->
                                 Result(keys[i], NoError)]
      [] OTHER             -> << >>

\* ------------------------------------------------------------------- state
VARIABLES
    batchFn,    \* Loader.batchFn
    batchCap,   \* Loader.batchCap
    noCache,    \* the Loader was constructed WithCache(&NoCache{})
    clearCacheOnBatch,  \* the Loader's clear-on-batch option
    cache,      \* Loader.cache: key -> thunk id, 0 when absent; the Thunks
                \* made by Load are numbered from 1, those made by Prime
                \* below 0
    cacheLock,  \* Loader.cacheLock: 0 free, else the caller holding it
    batching,   \* Loader.batching
    count,      \* Loader.count
    input,      \* Loader.input: the id of the current input channel
    chans,      \* every input channel made so far: [q, rcv, closed, by]
    reqs,       \* every batchRequest made so far: [key, buf, closed]
    thunks,     \* the result cell of every Thunk: [value, mu]
    batches,    \* the batch goroutines: [pc, ch, reqs, items]
    sleepers,   \* the sleeper goroutines, sleepers[b] started by batches[b]
    pc,         \* where each caller is
    local,      \* each caller's locals: [key, thunk]
    held,       \* the Thunks each caller was returned by Load
    calls,      \* the invocations of the batch function (the tests' loadCalls)
    rets,       \* what Thunk invocations returned: {[thunk, result]}
    budget,     \* the calls of Load (Prime, Clear, ClearAll) each caller
                \* makes at most
    nloads,     \* the calls of them each caller has made
    ncalls,     \* the Thunk invocations the callers have left
    crashed,    \* an unrecovered panic ended the process
    many,       \* the locals of the one LoadMany call, whose goroutines are
                \* the callers: [keys, arr, len, n, data, done, c, ret]
    tmo,        \* a dispatch under a maximum timeout: the contexts of the
                \* co-batched Loads, the timers that have run out, the
                \* resolver's context and results, and what the Thunk of
                \* each Load returned to its caller: [on, ctxs, fired,
                \* phase, rctx, results, waits]
    cv          \* the Thunk of the condition-variable Load (cache.go:504-565):
                \* where its receiver goroutine is and who is in cond.Wait:
                \* [rpc, waiters]

vars == << batchFn, batchCap, noCache, clearCacheOnBatch, cache, cacheLock,
           batching, count, input, chans, reqs, thunks, batches, sleepers, pc,
           local, held, calls, rets, budget, nloads, ncalls, crashed, many, tmo,
           cv >>

\* What NewBatchedLoader and the client fix for the run.
config == << batchFn, batchCap, noCache, clearCacheOnBatch, budget >>

loaderVars == << config, cache, cacheLock, batching, count, input, chans >>

\* make(chan *batchRequest, l.inputCap): q is everything ever sent, the first
\* rcv of which have been received; the buffer is the rest.  inputCap is 1000
\* (dataloader.go:136), never reached within MaxLoads, so a send never blocks.
NewChan == [q |-> << >>, rcv |-> 0, closed |-> FALSE, by |-> "open"]

\* No LoadMany call: the callers call Load and invoke Thunks themselves.
NoResultMany == [Data |-> << >>, Error |-> << "<nil *ResultMany>" >>]
NoMany == [keys |-> << >>, arr |-> << >>, len |-> 0, n |-> << >>, data |-> << >>,
           done |-> {}, c |-> NoResultMany, ret |-> NoResultMany]

\* context.Context, as far as the Loader uses it: the value a context carries
\* (a trace id, 0 for none) and the timers whose running out ends it.
Background == [vals |-> 0, timers |-> {}]
WithValue(ctx, v) == [ctx EXCEPT !.vals = v]
WithTimeout(ctx, timer) == [ctx EXCEPT !.timers = @ \cup {timer}]
DeadlineExceeded == "context deadline exceeded"

\* A context that is not detached: the caller's context itself.
AttachedContext(ctx) == ctx

\* DetachedContext (unnamed/part_011:35-53): Done, Err and Deadline are those
\* of context.Background(), Value is that of ctx.
DetachedContext(ctx) == [vals |-> ctx.vals, timers |-> Background.timers]

\* No dispatch under a maximum timeout is looked at.
NoTmo == [on |-> FALSE, ctxs |-> << >>, fired |-> {}, phase |-> "none",
          rctx |-> Background, results |-> << >>, waits |-> << >>]

\* No Thunk of the condition-variable Load is looked at.
NoCv == [rpc |-> "none", waiters |-> {}]

\* NewBatchedLoader (dataloader.go:132-155)
Init ==
    /\ batchFn \in BatchFnKinds
    /\ batchCap \in BatchCaps
    /\ batchFn = "oneerror" => batchCap = MaxBatchCap
    /\ noCache = FALSE
    /\ clearCacheOnBatch = FALSE
    /\ cache = [k \in Keys |-> 0]
    /\ cacheLock = 0
    /\ batching = FALSE
    /\ count = 0
    /\ input = 1
    /\ chans = << NewChan >>
    /\ reqs = << >>
    /\ thunks = << >>
    /\ batches = << >>
    /\ sleepers = << >>
    /\ pc = [p \in Callers |-> "idle"]
    /\ local = [p \in Callers |-> [key |-> 0, thunk |-> 0]]
    /\ held = [p \in Callers |-> {}]
    /\ calls = << >>
    /\ rets = {}
    /\ budget \in LoadBudgets
    /\ nloads = [p \in Callers |-> 0]
    /\ ncalls = MaxThunkCalls
    /\ crashed = FALSE
    /\ many = NoMany
    /\ tmo = NoTmo
    /\ cv = NoCv


\* ------------------------------------------------------------------- cache
\* A cache that never holds anything (NoCache.Get: nil, false): what the
\* Loader would do if Load found no key memoized.
NoCacheGet(k) == 0

\* A cache that forgets a Thunk once its Result is an error: what the Loader
\* would do if errors were not memoized.
ErrorForgettingGet(k) ==
    IF cache[k] > 0 /\ (\/ reqs[cache[k]].buf.Error = TestError
                        \/ thunks[cache[k]].value.Error = TestError)
      THEN 0 ELSE cache[k]

\* A cache lookup that does not see the futures made by Prime.
UnprimedGet(k) == IF cache[k] < 0 THEN 0 ELSE cache[k]

\* A cache that stores nothing (NoCache.Set).
NoCacheSet(k, t) == cache

\* A Set that stores whatever the Loader's cache is.
StoringSet(k, t) == [cache EXCEPT ![k] = t]

\* Cache.Get / Set of the Loader's cache: InMemoryCache (inMemoryCache.go:
\* 29-47), keyed by the key itself, or NoCache (cache.go:13-22), whose Get
\* finds nothing and whose Set stores nothing.
CacheGet(k) == IF noCache THEN 0 ELSE cache[k]
CacheSet(k, t) == IF noCache THEN cache ELSE [cache EXCEPT ![k] = t]

\* ----------------------------------------------------- Load (dataloader.go)
Key(r) == reqs[r].key
KeysOf(rs) == [i \in 1..Len(rs) |-> Key(rs[i])]

\* `return thunk` / `return v`: the caller holds the Thunk and is idle again.
Return(p, t) ==
    /\ held' = [held EXCEPT ![p] = @ \cup {t}]
    /\ pc' = [pc EXCEPT ![p] = "idle"]
    /\ local' = [local EXCEPT ![p] = [key |-> 0, thunk |-> 0]]

\* A Load that does not wait for cacheLock: what Load would do if its check
\* and its insert were not one critical section.
CacheLockIgnored == TRUE

\* Load, line 166: l.cacheLock.Lock() waits until no Load holds the lock.
CacheLockFree == cacheLock = 0

\* Load, lines 158-170: l.cacheLock.Lock(); l.cache.Get(key).  On a hit the
\* cached Thunk is returned (the deferred Unlock runs with the return); on a
\* miss the lock stays held until the Set.
LoadGet(p, k) ==
    /\ ~crashed /\ pc[p] = "idle" /\ nloads[p] < budget[p]
    /\ CacheLockFree
    /\ nloads' = [nloads EXCEPT ![p] = @ + 1]
    /\ IF CacheGet(k) # 0
         THEN /\ Return(p, CacheGet(k))
              /\ UNCHANGED cacheLock
         ELSE /\ cacheLock' = p
              /\ pc' = [pc EXCEPT ![p] = "set"]
              /\ local' = [local EXCEPT ![p] = [key |-> k, thunk |-> 0]]
              /\ UNCHANGED held
    /\ UNCHANGED << config, cv, many, tmo, cache, batching, count, input, chans, reqs, thunks,
                    batches, sleepers, calls, rets, ncalls, crashed >>

\* Load, lines 159-163, 172-190: the new Thunk (its channel c and its result
\* cell) goes into the cache, then the lock is released; req is {key, c}.
LoadSet(p) ==
    /\ ~crashed /\ pc[p] = "set"
    /\ LET t == Len(reqs) + 1 IN
         /\ reqs' = Append(reqs, [key |-> local[p].key, buf |-> NilResult, closed |-> FALSE])
         /\ thunks' = Append(thunks, [value |-> NilResult, mu |-> 0])
         /\ cache' = CacheSet(local[p].key, t)
         /\ local' = [local EXCEPT ![p].thunk = t]
    /\ cacheLock' = 0
    /\ pc' = [pc EXCEPT ![p] = "chk"]
    /\ UNCHANGED << config, cv, many, tmo, batching, count, input, chans, batches, sleepers,
                    held, calls, rets, nloads, ncalls, crashed >>

\* Load, line 193: `if !l.batching`, read without the lock.
LoadChk(p) ==
    /\ ~crashed /\ pc[p] = "chk"
    /\ pc' = [pc EXCEPT ![p] = IF batching THEN "send" ELSE "start"]
    /\ UNCHANGED << loaderVars, cv, tmo, many, reqs, thunks, batches, sleepers, local, held,
                    calls, rets, nloads, ncalls, crashed >>

\* batch, lines 298-301: a new batch goroutine has empty keys and reqs and has
\* started its sleeper (`go l.sleeper()`), which waits in its select; its next
\* step evaluates the range expression.
NewBatch == [pc |-> "range", ch |-> 0, reqs |-> << >>, items |-> << >>]

\* A batch goroutine that has returned: its locals are gone.
DoneBatch == [pc |-> "done", ch |-> 0, reqs |-> << >>, items |-> << >>]

\* Load, lines 194-197: batching = true under inputLock, then `go l.batch()`.
\* Starting the two goroutines changes nothing another goroutine can see
\* before their own first steps, so they are started in this step.
LoadStart(p) ==
    /\ ~crashed /\ pc[p] = "start"
    /\ batching' = TRUE
    /\ batches' = Append(batches, NewBatch)
    /\ sleepers' = Append(sleepers, "select")
    /\ pc' = [pc EXCEPT ![p] = "send"]
    /\ UNCHANGED << config, cv, many, tmo, cache, cacheLock, count, input, chans, reqs, thunks,
                    local, held, calls, rets, nloads, ncalls, crashed >>

\* Load, lines 201-203 and 206, 217: `l.input <- req` under the read lock; a
\* send on a closed channel panics.  Without a batch capacity Load returns.
LoadSend(p) ==
    /\ ~crashed /\ pc[p] = "send"
    /\ IF chans[input].closed
         THEN /\ crashed' = TRUE
              /\ UNCHANGED << chans, pc, local, held >>
         ELSE /\ chans' = [chans EXCEPT ![input].q = Append(@, local[p].thunk)]
              /\ crashed' = FALSE
              /\ IF batchCap > 0
                   THEN /\ pc' = [pc EXCEPT ![p] = "inc"]
                        /\ UNCHANGED << local, held >>
                   ELSE Return(p, local[p].thunk)
    /\ UNCHANGED << config, cv, many, tmo, cache, cacheLock, batching, count, input, reqs,
                    thunks, batches, sleepers, calls, rets, nloads, ncalls >>

\* Load, lines 207-209: l.count++ under countLock.
LoadInc(p) ==
    /\ ~crashed /\ pc[p] = "inc"
    /\ count' = count + 1
    /\ pc' = [pc EXCEPT ![p] = "cmp"]
    /\ UNCHANGED << config, cv, many, tmo, cache, cacheLock, batching, input, chans, reqs,
                    thunks, batches, sleepers, local, held, calls, rets, nloads,
                    ncalls, crashed >>

\* Load, lines 212, 217: `if l.count == l.batchCap`, read without the lock.
LoadCmp(p) ==
    /\ ~crashed /\ pc[p] = "cmp"
    /\ IF count = batchCap
         THEN /\ pc' = [pc EXCEPT ![p] = "force"]
              /\ UNCHANGED << local, held >>
         ELSE Return(p, local[p].thunk)
    /\ UNCHANGED << loaderVars, cv, tmo, many, reqs, thunks, batches, sleepers, calls, rets,
                    nloads, ncalls, crashed >>

\* Load, line 213, with sleeper, line 320: forceStartBatch is unbuffered, so
\* `l.forceStartBatch <- true` completes together with the receive of one
\* sleeper waiting in its select; then Load returns.
LoadForce(p, b) ==
    /\ ~crashed /\ pc[p] = "force"
    /\ sleepers[b] = "select"
    /\ sleepers' = [sleepers EXCEPT ![b] = "forced"]
    /\ Return(p, local[p].thunk)
    /\ UNCHANGED << loaderVars, cv, tmo, many, reqs, thunks, batches, calls, rets, nloads,
                    ncalls, crashed >>

\* ---------------------------------------------------- batch (lines 297-314)
\* line 303: the range expression l.input is evaluated once, without the lock.
BatchRange(b) ==
    /\ ~crashed /\ batches[b].pc = "range"
    /\ batches' = [batches EXCEPT ![b].pc = "recv", ![b].ch = input]
    /\ UNCHANGED << loaderVars, cv, tmo, many, reqs, thunks, sleepers, pc, local, held, calls,
                    rets, nloads, ncalls, crashed >>

\* lines 303-306: one iteration of the range: receive an item, append it.
BatchRecv(b) ==
    /\ ~crashed /\ batches[b].pc = "recv"
    /\ LET c == chans[batches[b].ch] IN
         /\ c.rcv < Len(c.q)
         /\ batches' = [batches EXCEPT ![b].reqs = Append(@, c.q[c.rcv + 1])]
         /\ chans' = [chans EXCEPT ![batches[b].ch].rcv = @ + 1]
    /\ UNCHANGED << config, cv, many, tmo, cache, cacheLock, batching, count, input, reqs,
                    thunks, sleepers, pc, local, held, calls, rets, nloads,
                    ncalls, crashed >>

\* line 308: the range ends when the channel is closed and drained, and the
\* batch function is invoked with the keys; a panic in it is not recovered.
BatchCall(b) ==
    /\ ~crashed /\ batches[b].pc = "recv"
    /\ LET c == chans[batches[b].ch]
           keys == KeysOf(batches[b].reqs) IN
         /\ c.rcv = Len(c.q) /\ c.closed
         /\ calls' = Append(calls, [ch |-> batches[b].ch, reqs |-> batches[b].reqs,
                                    keys |-> keys])
         /\ IF BatchFnPanics(batchFn, keys)
              THEN /\ crashed' = TRUE
                   /\ UNCHANGED batches
              ELSE /\ crashed' = FALSE
                   /\ batches' = [batches EXCEPT
                         ![b].items = BatchFnResults(batchFn, keys),
                         ![b].pc = "deliver"]
    /\ UNCHANGED << loaderVars, cv, tmo, many, reqs, thunks, sleepers, pc, local, held, rets,
                    nloads, ncalls >>

\* lines 310-313: `for i, req := range reqs { req.channel <- items[i];
\* close(req.channel) }`.  Each channel is private to its request and has room
\* for the one value, so the loop runs through; items[i] panics once i is out
\* of range, after the requests before i got their results.
\* Deliveries that do not go by position: every request gets the first
\* result; the requests get the results in reverse order.
DeliverFirst(rs, items) ==
    LET n == IF Len(items) < Len(rs) THEN Len(items) ELSE Len(rs)
    IN [r \in 1..Len(reqs) |->
          IF \E i \in 1..n : rs[i] = r
            THEN [reqs[r] EXCEPT !.buf = items[1], !.closed = TRUE]
            ELSE reqs[r]]
DeliverReversed(rs, items) ==
    LET n == IF Len(items) < Len(rs) THEN Len(items) ELSE Len(rs)
        pos(r) == CHOOSE i \in 1..n : rs[i] = r
    IN [r \in 1..Len(reqs) |->
          IF \E i \in 1..n : rs[i] = r
            THEN [reqs[r] EXCEPT !.buf = items[n + 1 - pos(r)], !.closed = TRUE]
            ELSE reqs[r]]

DeliverAll(rs, items) ==
    LET n == IF Len(items) < Len(rs) THEN Len(items) ELSE Len(rs)
        pos(r) == CHOOSE i \in 1..n : rs[i] = r
    IN [r \in 1..Len(reqs) |->
          IF \E i \in 1..n : rs[i] = r
            THEN [reqs[r] EXCEPT !.buf = items[pos(r)], !.closed = TRUE]
            ELSE reqs[r]]

\* Clear-on-batch: when the option is set, the cache entries of the keys of
\* a dispatch are removed right after its results were delivered.
ClearOnBatch(rs) ==
    IF clearCacheOnBatch
      THEN [k \in Keys |-> IF \E i \in 1..Len(rs) : Key(rs[i]) = k THEN 0 ELSE cache[k]]
      ELSE cache

BatchDeliver(b) ==
    /\ ~crashed /\ batches[b].pc = "deliver"
    /\ reqs' = DeliverAll(batches[b].reqs, batches[b].items)
    /\ crashed' = (Len(batches[b].items) < Len(batches[b].reqs))
    /\ batches' = [batches EXCEPT ![b] = IF crashed' THEN @ ELSE DoneBatch]
    /\ cache' = IF crashed' THEN cache ELSE ClearOnBatch(batches[b].reqs)
    /\ UNCHANGED << config, cv, many, tmo, cacheLock, batching, count, input, chans, thunks,
                    sleepers, pc, local, held, calls, rets, nloads, ncalls >>

\* The sleeper's critical section without the swap: close(l.input) and
\* batching = false, the closed channel staying the Loader's input.
ResetCloseOnly(cause) ==
    /\ chans' = [chans EXCEPT ![input].closed = TRUE, ![input].by = cause]
    /\ input' = input
    /\ batching' = FALSE

\* -------------------------------------------------- sleeper (lines 317-331)
\* lines 326-330, under inputLock: close(l.input), a new l.input, batching =
\* false.  The input channel closed here was made by the previous reset (or
\* by NewBatchedLoader) and nothing else closes it, so close never panics.
\* The closed channel remembers what ended its window: the timer or the
\* forced start.
Reset(cause) ==
    /\ chans' = Append([chans EXCEPT ![input].closed = TRUE, ![input].by = cause],
                       NewChan)
    /\ input' = Len(chans) + 1
    /\ batching' = FALSE

\* lines 318-330, `case <-time.After(l.wait)`: the timer ends the select and
\* the sleeper resets.  Between the timer and the Lock the sleeper touches
\* nothing shared, so the two are one step.
SleeperTimeout(b) ==
    /\ ~crashed /\ sleepers[b] = "select"
    /\ Reset("timer")
    /\ sleepers' = [sleepers EXCEPT ![b] = "done"]
    /\ UNCHANGED << config, cv, many, tmo, cache, cacheLock, count, reqs, thunks, batches, pc,
                    local, held, calls, rets, nloads, ncalls, crashed >>

\* lines 320, 326-330: after `case <-l.forceStartBatch` (see LoadForce) the
\* sleeper resets.
SleeperReset(b) ==
    /\ ~crashed /\ sleepers[b] = "forced"
    /\ Reset("force")
    /\ sleepers' = [sleepers EXCEPT ![b] = "done"]
    /\ UNCHANGED << config, cv, many, tmo, cache, cacheLock, count, reqs, thunks, batches, pc,
                    local, held, calls, rets, nloads, ncalls, crashed >>

\* ------------------------------------------- the Thunk (lines 172-183)
\* A Thunk invocation touches only its own result cell and channel, so its
\* statements are grouped into the steps at which it can block: the Lock
\* (line 174), the receive (line 175) and the RLock (line 180).

\* `return result.value` under RLock (lines 180-182).
\* In a goroutine of LoadMany (line 233, `result := thunk()`) the Thunk
\* returns to line 234, and the goroutine keeps the result of its Thunk.
ThunkResult(p, t, v) ==
    /\ rets' = rets \cup {[thunk |-> t, result |-> v]}
    /\ pc' = [pc EXCEPT ![p] = IF p \in DOMAIN many.keys THEN "merr" ELSE "idle"]
    /\ local' = [local EXCEPT ![p] =
                   [key |-> 0, thunk |-> IF p \in DOMAIN many.keys THEN t ELSE 0]]

\* lines 173-174, 180: `if result.value == nil`, read without the lock, then
\* Lock if it was nil, else RLock and return.
ThunkEnter(p, t) ==
    /\ ~crashed /\ pc[p] = "idle" /\ ncalls > 0
    /\ t \in held[p]
    /\ ncalls' = ncalls - 1
    /\ IF thunks[t].mu # 0
         THEN /\ pc' = [pc EXCEPT ![p] = IF thunks[t].value = NilResult THEN "tlock" ELSE "tret"]
              /\ local' = [local EXCEPT ![p] = [key |-> 0, thunk |-> t]]
              /\ UNCHANGED << thunks, rets >>
         ELSE IF thunks[t].value = NilResult
           THEN /\ thunks' = [thunks EXCEPT ![t].mu = p]
                /\ pc' = [pc EXCEPT ![p] = "trecv"]
                /\ local' = [local EXCEPT ![p] = [key |-> 0, thunk |-> t]]
                /\ UNCHANGED rets
           ELSE /\ ThunkResult(p, t, thunks[t].value)
                /\ UNCHANGED thunks
    /\ UNCHANGED << loaderVars, cv, tmo, many, reqs, batches, sleepers, held, calls, nloads,
                    crashed >>

\* lines 174, 180: a caller that found result.mu held gets it once it is
\* free: Lock (and on to the receive) if it had read nil, else RLock and
\* `return result.value`.
ThunkLock(p) ==
    /\ ~crashed /\ pc[p] \in {"tlock", "tret"}
    /\ thunks[local[p].thunk].mu = 0
    /\ IF pc[p] = "tlock"
         THEN /\ thunks' = [thunks EXCEPT ![local[p].thunk].mu = p]
              /\ pc' = [pc EXCEPT ![p] = "trecv"]
              /\ UNCHANGED << local, rets >>
         ELSE /\ ThunkResult(p, local[p].thunk, thunks[local[p].thunk].value)
              /\ UNCHANGED thunks
    /\ UNCHANGED << loaderVars, cv, tmo, many, reqs, batches, sleepers, held, calls, nloads,
                    ncalls, crashed >>

\* lines 175-182: `if v, ok := <-c; ok { result.value = v }`, Unlock, RLock,
\* return.  The receive blocks until c holds a value or is closed.
ThunkRecv(p) ==
    /\ ~crashed /\ pc[p] = "trecv"
    /\ LET t == local[p].thunk
           v == IF reqs[t].buf # NilResult THEN reqs[t].buf ELSE thunks[t].value IN
         /\ reqs[t].buf # NilResult \/ reqs[t].closed
         /\ thunks' = [thunks EXCEPT ![t].value = v, ![t].mu = 0]
         /\ reqs' = [reqs EXCEPT ![t].buf = NilResult]
         /\ ThunkResult(p, t, v)
    /\ UNCHANGED << loaderVars, cv, tmo, many, batches, sleepers, held, calls, nloads, ncalls,
                    crashed >>

\* ------------------------------ Prime, Clear, ClearAll (lines 268-294)
\* The future Prime makes for key k, `func() *Result { return &Result{Data:
\* value, Error: nil} }`, and the value the callers prime k with, one that no
\* batch function returns.
PrimedThunk(k) == 0 - k
PrimedValue(k) == Result(NumKeys + k, NoError)

\* A Delete that deletes nothing (NoCache.Delete) and a Clear that leaves the
\* least cached key in.
NoCacheDelete(k) == cache
CacheClearButOne ==
    [k \in Keys |-> IF \A j \in Keys : cache[j] # 0 => k <= j THEN cache[k] ELSE 0]

\* A Delete that removes every entry, not only that of its key.
CacheDeleteAll(k) == [j \in Keys |-> 0]

\* Cache.Delete and Cache.Clear: InMemoryCache (inMemoryCache.go:50-65) or
\* NoCache (cache.go:24-28), where both do nothing.
CacheDelete(k) == IF noCache THEN cache ELSE [cache EXCEPT ![k] = 0]
CacheClear == IF noCache THEN cache ELSE [k \in Keys |-> 0]

\* Prime, line 284: `if _, ok := l.cache.Get(key); !ok`, without cacheLock.
\* When the key is there Prime returns.
PrimeGet(p, k) ==
    /\ ~crashed /\ pc[p] = "idle" /\ nloads[p] < budget[p]
    /\ nloads' = [nloads EXCEPT ![p] = @ + 1]
    /\ IF CacheGet(k) # 0
         THEN UNCHANGED << pc, local >>
         ELSE /\ pc' = [pc EXCEPT ![p] = "prime"]
              /\ local' = [local EXCEPT ![p] = [key |-> k, thunk |-> 0]]
    /\ UNCHANGED << loaderVars, cv, tmo, many, reqs, thunks, batches, sleepers, held, calls,
                    rets, ncalls, crashed >>

\* Prime, lines 285-293: l.cache.Set(key, future); return.
PrimeSet(p) ==
    /\ ~crashed /\ pc[p] = "prime"
    /\ cache' = CacheSet(local[p].key, PrimedThunk(local[p].key))
    /\ pc' = [pc EXCEPT ![p] = "idle"]
    /\ local' = [local EXCEPT ![p] = [key |-> 0, thunk |-> 0]]
    /\ UNCHANGED << config, cv, many, tmo, cacheLock, batching, count, input, chans, reqs,
                    thunks, batches, sleepers, held, calls, rets, nloads,
                    ncalls, crashed >>

\* Clear, lines 269-272: l.cache.Delete(key), without cacheLock.
Clear(p, k) ==
    /\ ~crashed /\ pc[p] = "idle" /\ nloads[p] < budget[p]
    /\ nloads' = [nloads EXCEPT ![p] = @ + 1]
    /\ cache' = CacheDelete(k)
    /\ UNCHANGED << config, cv, many, tmo, cacheLock, batching, count, input, chans, reqs,
                    thunks, batches, sleepers, pc, local, held, calls, rets,
                    ncalls, crashed >>

\* ClearAll, lines 276-279: l.cache.Clear(), without cacheLock.
ClearAll(p) ==
    /\ ~crashed /\ pc[p] = "idle" /\ nloads[p] < budget[p]
    /\ nloads' = [nloads EXCEPT ![p] = @ + 1]
    /\ cache' = CacheClear
    /\ UNCHANGED << config, cv, many, tmo, cacheLock, batching, count, input, chans, reqs,
                    thunks, batches, sleepers, pc, local, held, calls, rets,
                    ncalls, crashed >>

\* An invocation of a future made by Prime (lines 285-290): it returns its
\* value at once.
PrimedCall(p, k) ==
    /\ ~crashed /\ pc[p] = "idle" /\ ncalls > 0
    /\ PrimedThunk(k) \in held[p]
    /\ ncalls' = ncalls - 1
    /\ rets' = rets \cup {[thunk |-> PrimedThunk(k), result |-> PrimedValue(k)]}
    /\ UNCHANGED << loaderVars, cv, tmo, many, reqs, thunks, batches, sleepers, pc, local,
                    held, calls, nloads, crashed >>

\* ------------------------------------------------- LoadMany (lines 220-266)
\* LoadMany(keys) starts one goroutine per key (lines 229-239), here the
\* callers: goroutine i calls Load(keys[i]), invokes the Thunk, appends to the
\* shared errors slice if the Result has an error, writes data[i], and is
\* done.  errors is made with room for every key (line 224), so an append
\* never reallocates: it reads the slice's length, writes the element after
\* it, and writes the length back, with no lock; arr is the slice's array and
\* len its length.
ManyKeys == 2
Routines == DOMAIN many.keys
ManyResult(p) == thunks[local[p].thunk].value
ManyErrors == SubSeq(many.arr, 1, many.len)

\* lines 222-228: the locals of LoadMany(keys) before any goroutine has run.
NewMany(keys) ==
    [keys |-> keys,
     arr  |-> [i \in 1..Len(keys) |-> [error |-> NoError, index |-> 0]],
     len  |-> 0,
     n    |-> [i \in 1..Len(keys) |-> 0],
     data |-> [i \in 1..Len(keys) |-> 0],
     done |-> {},
     c    |-> NoResultMany,
     ret  |-> NoResultMany]

\* line 234: `if result.Error != nil`; a nil result is a nil dereference.  With
\* an error the append begins: it reads the length of errors (line 235).
ManyErr(p) ==
    /\ ~crashed /\ pc[p] = "merr"
    /\ IF ManyResult(p) = NilResult
         THEN /\ crashed' = TRUE
              /\ UNCHANGED << pc, many >>
         ELSE /\ crashed' = FALSE
              /\ IF ManyResult(p).Error # NoError
                   THEN /\ many' = [many EXCEPT !.n[p] = many.len]
                        /\ pc' = [pc EXCEPT ![p] = "mapp"]
                   ELSE /\ pc' = [pc EXCEPT ![p] = "mdat"]
                        /\ UNCHANGED many
    /\ UNCHANGED << loaderVars, cv, tmo, reqs, thunks, batches, sleepers, local, held,
                    calls, rets, nloads, ncalls >>

\* line 235: `errors = append(errors, resultError{result.Error, i})`: the
\* element goes after the length that was read, and that length plus one is
\* written back.
ManyAppend(p) ==
    /\ ~crashed /\ pc[p] = "mapp"
    /\ many' = [many EXCEPT
                  !.arr[many.n[p] + 1] = [error |-> ManyResult(p).Error, index |-> p],
                  !.len = many.n[p] + 1]
    /\ pc' = [pc EXCEPT ![p] = "mdat"]
    /\ UNCHANGED << loaderVars, cv, tmo, reqs, thunks, batches, sleepers, local, held,
                    calls, rets, nloads, ncalls, crashed >>

\* lines 231, 237: `data[i] = result.Data`, then the deferred wg.Done().
ManyData(p) ==
    /\ ~crashed /\ pc[p] = "mdat"
    /\ many' = [many EXCEPT !.data[p] = ManyResult(p).Data, !.done = @ \cup {p}]
    /\ pc' = [pc EXCEPT ![p] = "mend"]
    /\ UNCHANGED << loaderVars, cv, tmo, reqs, thunks, batches, sleepers, local, held,
                    calls, rets, nloads, ncalls, crashed >>

\* A barrier that lets the collector go on when one goroutine is done.
WgWaitAny == many.done # {}

\* line 242: wg.Wait() returns when every goroutine has called Done.
WgWait == many.done = Routines

\* lines 241-245: the collector waits for the goroutines, then sends the
\* ResultMany of data and errors on c and closes it.
ManyCollect ==
    /\ ~crashed /\ Routines # {} /\ many.c = NoResultMany
    /\ WgWait
    /\ many' = [many EXCEPT !.c = [Data |-> many.data, Error |-> ManyErrors]]
    /\ UNCHANGED << loaderVars, cv, tmo, reqs, thunks, batches, sleepers, pc, local,
                    held, calls, rets, nloads, ncalls, crashed >>

\* lines 252-263: the ThunkMany, invoked by the caller of LoadMany: it
\* receives the ResultMany from c and returns it.
ThunkMany ==
    /\ ~crashed /\ many.c # NoResultMany /\ many.ret = NoResultMany
    /\ many' = [many EXCEPT !.ret = many.c]
    /\ UNCHANGED << loaderVars, cv, tmo, reqs, thunks, batches, sleepers, pc, local,
                    held, calls, rets, nloads, ncalls, crashed >>

\* ------------------------------------------ dispatch under a timeout
\* The Loads of the test "dataloader with timeout": each has the context of
\* its caller, a context with a value and a deadline of its own, with no
\* deadline, or with the deadline of the caller before it.  MaxTimer is the
\* timer of the Loader's maximum timeout.
NumCtx == 2
MaxTimer == 0
CallerCtxs ==
    { WithValue(c, v) : v \in {0, 1},
                        c \in {Background} \cup {WithTimeout(Background, t) : t \in 1..NumCtx} }

\* A context that has ended as soon as any timer has run out, whether or not
\* it is one of its own.
CtxErrAny(ctx) == IF tmo.fired # {} THEN DeadlineExceeded ELSE NoError

\* ctx.Err(): the context has ended when one of its timers has run out.
CtxErr(ctx) == IF ctx.timers \cap tmo.fired # {} THEN DeadlineExceeded ELSE NoError

\* A caller's deadline passes (or its cancel is called), or the maximum
\* timeout runs out, which starts with the dispatch.
CtxExpire(t) ==
    /\ tmo.on /\ t \notin tmo.fired
    /\ t = MaxTimer => tmo.phase # "collect"
    /\ tmo' = [tmo EXCEPT !.fired = @ \cup {t}]
    /\ UNCHANGED << loaderVars, cv, many, reqs, thunks, batches, sleepers, pc, local,
                    held, calls, rets, nloads, ncalls, crashed >>

\* The context the batch function is called with: that of the first request,
\* detached and bounded by the maximum timeout.
ResolverCtx(ctxs) == WithTimeout(DetachedContext(ctxs[1]), MaxTimer)

\* The window is sealed and the batch function is called with its context.
TimeoutDispatch ==
    /\ tmo.on /\ tmo.phase = "collect"
    /\ tmo' = [tmo EXCEPT !.phase = "call", !.rctx = ResolverCtx(tmo.ctxs)]
    /\ UNCHANGED << loaderVars, cv, many, reqs, thunks, batches, sleepers, pc, local,
                    held, calls, rets, nloads, ncalls, crashed >>

\* The batch function of TimeoutLoader (dataloader_test.go:983-998) after
\* its sleep: for every key, the key if ctx.Err() is nil, else that error.
TimeoutBatchFn ==
    /\ tmo.on /\ tmo.phase = "call"
    /\ tmo' = [tmo EXCEPT
                 !.phase = "done",
                 !.results = [i \in 1..Len(tmo.ctxs) |->
                                IF CtxErr(tmo.rctx) = NoError
                                  THEN Result(i, NoError)
                                  ELSE Result(0, CtxErr(tmo.rctx))]]
    /\ UNCHANGED << loaderVars, cv, many, reqs, thunks, batches, sleepers, pc, local,
                    held, calls, rets, nloads, ncalls, crashed >>

\* The Thunk of Load i, invoked by its caller with the caller's context,
\* waits for the Result of its request: once the batch function's results
\* were delivered it returns the Result at its position.
TimeoutThunkResult(i) ==
    /\ tmo.on /\ tmo.phase = "done"
    /\ tmo.waits[i] = NilResult
    /\ tmo' = [tmo EXCEPT !.waits[i] = tmo.results[i]]
    /\ UNCHANGED << loaderVars, cv, many, reqs, thunks, batches, sleepers, pc, local,
                    held, calls, rets, nloads, ncalls, crashed >>

\* The wait of the Thunk of Load i ends when the caller's context has ended:
\* the Thunk returns that context's error to this caller, and the request
\* stays in the dispatch.
TimeoutThunkCancel(i) ==
    /\ tmo.on /\ tmo.waits[i] = NilResult
    /\ CtxErr(tmo.ctxs[i]) # NoError
    /\ tmo' = [tmo EXCEPT !.waits[i] = Result(0, CtxErr(tmo.ctxs[i]))]
    /\ UNCHANGED << loaderVars, cv, many, reqs, thunks, batches, sleepers, pc, local,
                    held, calls, rets, nloads, ncalls, crashed >>

\* ------------------------ the condition-variable Load (cache.go:504-565)
\* In this Load the Thunk does not receive from the request's channel c
\* itself: a goroutine started when Load returns receives the Result, stores
\* it in `value` and broadcasts on cond, and the Thunk waits on cond when it
\* reads value == nil.  One request (number 1) is looked at: thunks[1].value
\* is `value`, thunks[1].mu is the holder of cond.L, reqs[1] is c.
MaxCondCalls == 4    \* invocations of the Thunk over the run

\* batch, lines 658-661: `req.channel <- items[i]; close(req.channel)`, the
\* dispatch delivers the Result of the request.
CondDeliver ==
    /\ cv.rpc # "none" /\ ~reqs[1].closed
    /\ reqs' = [reqs EXCEPT ![1].buf = Result(Key(1), NoError), ![1].closed = TRUE]
    /\ UNCHANGED << loaderVars, many, tmo, cv, thunks, batches, sleepers, pc, local,
                    held, calls, rets, nloads, ncalls, crashed >>

\* Load, line 559: the receiver goroutine's `value = <-c`.
CondRecv ==
    /\ cv.rpc = "recv" /\ reqs[1].buf # NilResult
    /\ thunks' = [thunks EXCEPT ![1].value = reqs[1].buf]
    /\ reqs' = [reqs EXCEPT ![1].buf = NilResult]
    /\ cv' = [cv EXCEPT !.rpc = "bcast"]
    /\ UNCHANGED << loaderVars, many, tmo, batches, sleepers, pc, local, held,
                    calls, rets, nloads, ncalls, crashed >>

\* Load, line 560: cond.Broadcast() wakes the goroutines that are in
\* cond.Wait now, and the receiver goroutine ends.
CondBroadcast ==
    /\ cv.rpc = "bcast"
    /\ cv' = [rpc |-> "done", waiters |-> {}]
    /\ UNCHANGED << loaderVars, many, tmo, reqs, thunks, batches, sleepers, pc,
                    local, held, calls, rets, nloads, ncalls, crashed >>

\* Thunk, lines 517, 522: `if value == nil`, read without a lock; when value
\* is there the Thunk returns it.
CondEnter(p) ==
    /\ cv.rpc # "none" /\ pc[p] = "idle" /\ ncalls > 0
    /\ ncalls' = ncalls - 1
    /\ IF thunks[1].value = NilResult
         THEN /\ pc' = [pc EXCEPT ![p] = "clock"]
              /\ UNCHANGED rets
         ELSE /\ rets' = rets \cup {[thunk |-> 1, result |-> thunks[1].value]}
              /\ UNCHANGED pc
    /\ UNCHANGED << loaderVars, many, tmo, cv, reqs, thunks, batches, sleepers,
                    local, held, calls, nloads, crashed >>

\* Thunk, line 518: cond.L.Lock().
CondLock(p) ==
    /\ pc[p] = "clock" /\ thunks[1].mu = 0
    /\ thunks' = [thunks EXCEPT ![1].mu = p]
    /\ pc' = [pc EXCEPT ![p] = "cwait"]
    /\ UNCHANGED << loaderVars, many, tmo, cv, reqs, batches, sleepers, local,
                    held, calls, rets, nloads, ncalls, crashed >>

\* Thunk, line 519: cond.Wait() unlocks cond.L and suspends the goroutine
\* until a Broadcast that comes after.
CondWait(p) ==
    /\ pc[p] = "cwait"
    /\ thunks' = [thunks EXCEPT ![1].mu = 0]
    /\ cv' = [cv EXCEPT !.waiters = @ \cup {p}]
    /\ pc' = [pc EXCEPT ![p] = "cwaiting"]
    /\ UNCHANGED << loaderVars, many, tmo, reqs, batches, sleepers, local, held,
                    calls, rets, nloads, ncalls, crashed >>

\* Thunk, line 519: a goroutine a Broadcast has woken locks cond.L again
\* before Wait returns.
CondWake(p) ==
    /\ pc[p] = "cwaiting" /\ p \notin cv.waiters /\ thunks[1].mu = 0
    /\ thunks' = [thunks EXCEPT ![1].mu = p]
    /\ pc' = [pc EXCEPT ![p] = "cunlock"]
    /\ UNCHANGED << loaderVars, many, tmo, cv, reqs, batches, sleepers, local,
                    held, calls, rets, nloads, ncalls, crashed >>

\* Thunk, lines 520-522: cond.L.Unlock(); return value.
CondReturn(p) ==
    /\ pc[p] = "cunlock"
    /\ thunks' = [thunks EXCEPT ![1].mu = 0]
    /\ rets' = rets \cup {[thunk |-> 1, result |-> thunks[1].value]}
    /\ pc' = [pc EXCEPT ![p] = "idle"]
    /\ UNCHANGED << loaderVars, many, tmo, cv, reqs, batches, sleepers, local,
                    held, calls, nloads, ncalls, crashed >>

\* ----------------------------------------------------------- specification
Batches == 1..Len(batches)

\* The Loader looks at a key only to compare it with other keys, so which key
\* a caller loads matters only up to renaming: a Load takes a key that was
\* loaded before or the least key that was not.
LoadedKeys == {reqs[r].key : r \in 1..Len(reqs)} \cup {local[p].key : p \in Callers}
LoadKeys == {k \in Keys : k - 1 \in LoadedKeys \cup {0}}

Next ==
    \/ \E p \in Callers, k \in LoadKeys : LoadGet(p, k)
    \/ \E p \in Callers : LoadSet(p)
    \/ \E p \in Callers : LoadChk(p)
    \/ \E p \in Callers : LoadStart(p)
    \/ \E p \in Callers : LoadSend(p)
    \/ \E p \in Callers : LoadInc(p)
    \/ \E p \in Callers : LoadCmp(p)
    \/ \E p \in Callers, b \in Batches : LoadForce(p, b)
    \/ \E b \in Batches : BatchRange(b)
    \/ \E b \in Batches : BatchRecv(b)
    \/ \E b \in Batches : BatchCall(b)
    \/ \E b \in Batches : BatchDeliver(b)
    \/ \E b \in Batches : SleeperTimeout(b)
    \/ \E b \in Batches : SleeperReset(b)
    \/ \E p \in Callers, t \in 1..Len(thunks) : ThunkEnter(p, t)
    \/ \E p \in Callers : ThunkLock(p)
    \/ \E p \in Callers : ThunkRecv(p)

Spec == Init /\ [][Next]_vars

\* The Loader with its cache operations: IDLoader(0), the Loader of the
\* tests of Prime, Clear and ClearAll, and IDLoader(MaxBatchCap); the callers
\* also prime and clear.
\* A key is in use when it was requested or is cached or is about to be.
CacheBudgets == { [p \in Callers |-> IF p = 1 THEN MaxCacheCalls ELSE 0],
                  [p \in Callers |-> MaxRaceLoads] }

InitCache ==
    /\ batchFn = "identity"
    /\ batchCap \in {0, MaxBatchCap}
    /\ noCache = FALSE
    /\ clearCacheOnBatch = FALSE
    /\ cache = [k \in Keys |-> 0]
    /\ cacheLock = 0
    /\ batching = FALSE
    /\ count = 0
    /\ input = 1
    /\ chans = << NewChan >>
    /\ reqs = << >>
    /\ thunks = << >>
    /\ batches = << >>
    /\ sleepers = << >>
    /\ pc = [p \in Callers |-> "idle"]
    /\ local = [p \in Callers |-> [key |-> 0, thunk |-> 0]]
    /\ held = [p \in Callers |-> {}]
    /\ calls = << >>
    /\ rets = {}
    /\ budget \in CacheBudgets
    /\ nloads = [p \in Callers |-> 0]
    /\ ncalls = MaxThunkCalls
    /\ crashed = FALSE
    /\ many = NoMany
    /\ tmo = NoTmo
    /\ cv = NoCv

UsedKeys == LoadedKeys \cup {k \in Keys : cache[k] # 0}
CacheKeys == {k \in Keys : k - 1 \in UsedKeys \cup {0}}

NextCache ==
    \/ \E p \in Callers, k \in CacheKeys : LoadGet(p, k)
    \/ \E p \in Callers, k \in CacheKeys : PrimeGet(p, k)
    \/ \E p \in Callers : PrimeSet(p)
    \/ \E p \in Callers, k \in CacheKeys : Clear(p, k)
    \/ \E p \in Callers : ClearAll(p)
    \/ \E p \in Callers, k \in Keys : PrimedCall(p, k)
    \/ \E p \in Callers : LoadSet(p)
    \/ \E p \in Callers : LoadChk(p)
    \/ \E p \in Callers : LoadStart(p)
    \/ \E p \in Callers : LoadSend(p)
    \/ \E p \in Callers : LoadInc(p)
    \/ \E p \in Callers : LoadCmp(p)
    \/ \E p \in Callers, b \in Batches : LoadForce(p, b)
    \/ \E b \in Batches : BatchRange(b)
    \/ \E b \in Batches : BatchRecv(b)
    \/ \E b \in Batches : BatchCall(b)
    \/ \E b \in Batches : BatchDeliver(b)
    \/ \E b \in Batches : SleeperTimeout(b)
    \/ \E b \in Batches : SleeperReset(b)
    \/ \E p \in Callers, t \in 1..Len(thunks) : ThunkEnter(p, t)
    \/ \E p \in Callers : ThunkLock(p)
    \/ \E p \in Callers : ThunkRecv(p)

SpecCache == InitCache /\ [][NextCache]_vars

\* The Loader with an option that changes what the cache holds: NoCacheLoader
\* (WithCache(&NoCache{}), no batch capacity as in its tests) or
\* BatchOnlyLoader (clear-on-batch).
InitOpt ==
    /\ batchFn = "identity"
    /\ batchCap \in {0, MaxBatchCap}
    /\ noCache \in BOOLEAN
    /\ noCache => batchCap = 0
    /\ clearCacheOnBatch = ~noCache
    /\ cache = [k \in Keys |-> 0]
    /\ cacheLock = 0
    /\ batching = FALSE
    /\ count = 0
    /\ input = 1
    /\ chans = << NewChan >>
    /\ reqs = << >>
    /\ thunks = << >>
    /\ batches = << >>
    /\ sleepers = << >>
    /\ pc = [p \in Callers |-> "idle"]
    /\ local = [p \in Callers |-> [key |-> 0, thunk |-> 0]]
    /\ held = [p \in Callers |-> {}]
    /\ calls = << >>
    /\ rets = {}
    /\ budget \in LoadBudgets
    /\ nloads = [p \in Callers |-> 0]
    /\ ncalls = MaxThunkCalls
    /\ crashed = FALSE
    /\ many = NoMany
    /\ tmo = NoTmo
    /\ cv = NoCv

SpecOpt == InitOpt /\ [][NextCache]_vars

\* One call of LoadMany with ManyKeys keys, the same key twice or two keys,
\* on a fresh Loader with IDLoader, ErrorLoader or OneErrorLoader, the batch
\* functions of the tests of LoadMany: each goroutine makes its one Load and
\* its one Thunk invocation.
InitMany ==
    /\ batchFn \in {"identity", "error", "oneerror"}
    /\ batchCap \in BatchCaps
    /\ batchFn = "oneerror" => batchCap = MaxBatchCap
    /\ noCache = FALSE
    /\ clearCacheOnBatch = FALSE
    /\ cache = [k \in Keys |-> 0]
    /\ cacheLock = 0
    /\ batching = FALSE
    /\ count = 0
    /\ input = 1
    /\ chans = << NewChan >>
    /\ reqs = << >>
    /\ thunks = << >>
    /\ batches = << >>
    /\ sleepers = << >>
    /\ pc = [p \in Callers |-> "idle"]
    /\ local = [p \in Callers |-> [key |-> 0, thunk |-> 0]]
    /\ held = [p \in Callers |-> {}]
    /\ calls = << >>
    /\ rets = {}
    /\ budget = [p \in Callers |-> 1]
    /\ nloads = [p \in Callers |-> 0]
    /\ ncalls = ManyKeys
    /\ crashed = FALSE
    /\ \E k \in {1, 2} : many = NewMany(<< 1, k >>)
    /\ tmo = NoTmo
    /\ cv = NoCv

NextMany ==
    \/ \E p \in Callers : LoadGet(p, many.keys[p])
    \/ \E p \in Callers : LoadSet(p)
    \/ \E p \in Callers : LoadChk(p)
    \/ \E p \in Callers : LoadStart(p)
    \/ \E p \in Callers : LoadSend(p)
    \/ \E p \in Callers : LoadInc(p)
    \/ \E p \in Callers : LoadCmp(p)
    \/ \E p \in Callers, b \in Batches : LoadForce(p, b)
    \/ \E b \in Batches : BatchRange(b)
    \/ \E b \in Batches : BatchRecv(b)
    \/ \E b \in Batches : BatchCall(b)
    \/ \E b \in Batches : BatchDeliver(b)
    \/ \E b \in Batches : SleeperTimeout(b)
    \/ \E b \in Batches : SleeperReset(b)
    \/ \E p \in Callers, t \in 1..Len(thunks) : ThunkEnter(p, t)
    \/ \E p \in Callers : ThunkLock(p)
    \/ \E p \in Callers : ThunkRecv(p)
    \/ \E p \in Callers : ManyErr(p)
    \/ \E p \in Callers : ManyAppend(p)
    \/ \E p \in Callers : ManyData(p)
    \/ ManyCollect
    \/ ThunkMany

SpecMany == InitMany /\ [][NextMany]_vars

\* One window of NumCtx Loads on a Loader with a maximum timeout, from the
\* last Load to the results of the batch function.
InitTimeout ==
    /\ batchFn = "identity"
    /\ batchCap = 0
    /\ noCache = FALSE
    /\ clearCacheOnBatch = FALSE
    /\ cache = [k \in Keys |-> 0]
    /\ cacheLock = 0
    /\ batching = FALSE
    /\ count = 0
    /\ input = 1
    /\ chans = << NewChan >>
    /\ reqs = << >>
    /\ thunks = << >>
    /\ batches = << >>
    /\ sleepers = << >>
    /\ pc = [p \in Callers |-> "idle"]
    /\ local = [p \in Callers |-> [key |-> 0, thunk |-> 0]]
    /\ held = [p \in Callers |-> {}]
    /\ calls = << >>
    /\ rets = {}
    /\ budget = [p \in Callers |-> 0]
    /\ nloads = [p \in Callers |-> 0]
    /\ ncalls = 0
    /\ crashed = FALSE
    /\ many = NoMany
    /\ \E cs \in [1..NumCtx -> CallerCtxs] :
         tmo = [on |-> TRUE, ctxs |-> cs, fired |-> {}, phase |-> "collect",
                rctx |-> Background, results |-> << >>,
                waits |-> [i \in 1..NumCtx |-> NilResult]]
    /\ cv = NoCv

NextTimeout ==
    \/ \E t \in {MaxTimer} \cup (1..NumCtx) : CtxExpire(t)
    \/ TimeoutDispatch
    \/ TimeoutBatchFn
    \/ \E i \in 1..NumCtx : TimeoutThunkResult(i)
    \/ \E i \in 1..NumCtx : TimeoutThunkCancel(i)

SpecTimeout == InitTimeout /\ [][NextTimeout]_vars

\* The condition-variable Load has returned the Thunk of a key: the Thunk is
\* cached, the callers hold it, its request awaits the dispatch, and the
\* receiver goroutine waits for the Result.
InitCond ==
    /\ batchFn = "identity"
    /\ batchCap = 0
    /\ noCache = FALSE
    /\ clearCacheOnBatch = FALSE
    /\ cache = [k \in Keys |-> IF k = 1 THEN 1 ELSE 0]
    /\ cacheLock = 0
    /\ batching = FALSE
    /\ count = 0
    /\ input = 1
    /\ chans = << NewChan >>
    /\ reqs = << [key |-> 1, buf |-> NilResult, closed |-> FALSE] >>
    /\ thunks = << [value |-> NilResult, mu |-> 0] >>
    /\ batches = << >>
    /\ sleepers = << >>
    /\ pc = [p \in Callers |-> "idle"]
    /\ local = [p \in Callers |-> [key |-> 0, thunk |-> 0]]
    /\ held = [p \in Callers |-> {1}]
    /\ calls = << >>
    /\ rets = {}
    /\ budget = [p \in Callers |-> 0]
    /\ nloads = [p \in Callers |-> 0]
    /\ ncalls = MaxCondCalls
    /\ crashed = FALSE
    /\ many = NoMany
    /\ tmo = NoTmo
    /\ cv = [rpc |-> "recv", waiters |-> {}]

NextCond ==
    \/ CondDeliver
    \/ CondRecv
    \/ CondBroadcast
    \/ \E p \in Callers : CondEnter(p)
    \/ \E p \in Callers : CondLock(p)
    \/ \E p \in Callers : CondWait(p)
    \/ \E p \in Callers : CondWake(p)
    \/ \E p \in Callers : CondReturn(p)

SpecCond == InitCond /\ [][NextCond]_vars


\* ------------------------------------------------------- derived notions
Reqs == 1..Len(reqs)
Chans == 1..Len(chans)
Calls == 1..Len(calls)

\* The Result request r was given: in its channel, or received by its Thunk.
Outcome(r) == IF reqs[r].buf # NilResult THEN reqs[r].buf ELSE thunks[r].value

\* How often key k was passed to the batch function, over all invocations.
Entries(k) ==
    Cardinality({ij \in Calls \X Reqs :
                   ij[2] <= Len(calls[ij[1]].keys) /\ calls[ij[1]].keys[ij[2]] = k})

\* How often a request for key k was sent on an input channel.
Enqueued(k) ==
    Cardinality({cj \in Chans \X Reqs :
                   cj[2] <= Len(chans[cj[1]].q) /\ Key(chans[cj[1]].q[cj[2]]) = k})

\* No goroutine of the Loader can take a step, and no Load is under way: the
\* state changes only if a caller issues another Load or invokes a Thunk.
LoadUnderWay(p) ==
    \/ pc[p] \in {"set", "chk", "start", "send", "inc", "cmp"}
    \/ pc[p] = "force" /\ \E b \in Batches : sleepers[b] = "select"
BatchCanStep(b) ==
    \/ batches[b].pc \in {"range", "deliver"}
    \/ /\ batches[b].pc = "recv"
       /\ LET c == chans[batches[b].ch] IN c.rcv < Len(c.q) \/ c.closed
Quiescent ==
    /\ ~crashed
    /\ \A p \in Callers : ~LoadUnderWay(p)
    /\ \A b \in Batches : ~BatchCanStep(b) /\ sleepers[b] = "done"

\* The client is one caller (the tests) / two racing callers.
OneCaller == budget[2] = 0
TwoCallers == budget[2] > 0

\* ------------------------------------------------------------------ claims

\* C1: with no batch capacity, the Loads enqueued in one window (one input
\* channel) are passed to the batch function in exactly one invocation, which
\* gets all their keys in the order they were enqueued: no invocation gets
\* only part of a window, no window is invoked twice, and once the Loader has
\* come to rest every window that holds requests has been invoked.
C1_OneInvocationPerWindow ==
    batchCap = 0 =>
      /\ \A i \in Calls : calls[i].keys = KeysOf(chans[calls[i].ch].q)
      /\ \A i, j \in Calls : calls[i].ch = calls[j].ch => i = j
      /\ Quiescent =>
           \A c \in Chans : chans[c].q # << >> => \E i \in Calls : calls[i].ch = c

\* C2: every request is dispatched and its Thunk resolves even if no further
\* Load is issued: when the Loader has come to rest, no request is left
\* without a Result.
C2_EveryRequestResolves ==
    Quiescent => \A r \in Reqs : reqs[r].closed

\* C3: loads of the same key (default cache, no Clear) put at most one entry
\* for the key into the batch function's input, return the same Thunk, and
\* all invocations of it return the identical Result, which is there only
\* after the key was passed to the batch function exactly once.
C3_SameKeyOneEntry ==
    \A k \in Keys :
      /\ Entries(k) <= 1
      /\ \A p, q \in Callers : \A t \in held[p], u \in held[q] :
           Key(t) = k /\ Key(u) = k => t = u
      /\ \A x, y \in rets :
           Key(x.thunk) = k /\ Key(y.thunk) = k => x.result = y.result
      /\ \A x \in rets :
           Key(x.thunk) = k => Entries(k) = 1 /\ x.result # NilResult

\* C3 witness: one caller loaded the same key twice, both invocations of the
\* one Thunk it got returned the key's data, and the batch function was
\* invoked once, with that key alone.
C3_Witness ==
    \E p \in Callers, t \in Reqs :
      /\ nloads[p] = 2 /\ pc[p] = "idle" /\ held[p] = {t}
      /\ ncalls = 0
      /\ rets = {[thunk |-> t, result |-> Result(Key(t), NoError)]}
      /\ Len(calls) = 1 /\ calls[1].keys = << Key(t) >>

\* C4: the cache check and the cache insert of Load are one atomic step: for
\* every key at most one Load misses (there is at most one request for it,
\* counting a Load between its check and its insert), every Thunk a caller
\* was returned for the key is that one cached Thunk, and the key is sent on
\* an input channel at most once.
C4_AtomicCheckAndInsert ==
    \A k \in Keys :
      /\ Cardinality({r \in Reqs : Key(r) = k})
           + Cardinality({p \in Callers : pc[p] = "set" /\ local[p].key = k}) <= 1
      /\ \A p \in Callers : \A t \in held[p] : Key(t) = k => t = cache[k]
      /\ Enqueued(k) <= 1

\* C4 witness: two callers raced Load on the same key; both have returned
\* with the same Thunk, and there is one request, enqueued once.
C4_Witness ==
    /\ TwoCallers
    /\ \A p \in Callers : nloads[p] = 1 /\ pc[p] = "idle" /\ held[p] = {1}
    /\ Len(reqs) = 1 /\ Enqueued(Key(1)) = 1

\* C5: with a batch capacity M > 0 no invocation of the batch function gets
\* more than M keys.
C5_AtMostCapacityKeys ==
    batchCap > 0 => \A i \in Calls : Len(calls[i].keys) <= batchCap

\* C6: capacity 2, identity batch function, one caller issuing Load("1"),
\* Load("2"), Load("3") back to back (the timer runs out on no window before
\* the third Load is in it): the invocations are ["1","2"] and then ["3"],
\* and once the Loader has come to rest after the third Load both were made
\* and the three Thunks hold their data with no error.
BackToBack ==
    /\ OneCaller
    /\ Len(reqs) + Cardinality({p \in Callers : pc[p] = "set"}) = nloads[1]
    /\ \A c \in Chans :
         chans[c].by = "timer" => \E j \in 1..Len(chans[c].q) : Key(chans[c].q[j]) = 3
C6_TwoDispatches ==
    (BackToBack /\ batchCap = 2 /\ batchFn = "identity") =>
      /\ [i \in Calls |-> calls[i].keys] \in
           { << >>, << <<1, 2>> >>, << <<1, 2>>, <<3>> >> }
      /\ (Quiescent /\ nloads[1] = 3) =>
           /\ Len(calls) = 2
           /\ \A r \in Reqs : Outcome(r) = Result(Key(r), NoError)

\* C7: when the batch function returns a result list whose length differs
\* from the number of keys, the dispatch does not crash and every request of
\* that invocation that got a Result got an error.
C7_MismatchAllErrors ==
    \A i \in Calls :
      (/\ batchFn = "faulty"
       /\ Len(BatchFnResults(batchFn, calls[i].keys)) # Len(calls[i].keys)) =>
        /\ ~crashed
        /\ \A j \in 1..Len(calls[i].reqs) :
             reqs[calls[i].reqs[j]].closed => Outcome(calls[i].reqs[j]).Error # NoError

\* C8: a panic of the batch function is recovered: it ends neither the
\* dispatch nor the process, and every request of that invocation that got a
\* Result got the error "Panic received in batch function: <message>".
PanicError == "Panic received in batch function: Programming error"
C8_PanicRecovered ==
    \A i \in Calls :
      (batchFn = "panic" /\ calls[i].keys # << >>) =>
        /\ ~crashed
        /\ \A j \in 1..Len(calls[i].reqs) :
             reqs[calls[i].reqs[j]].closed => Outcome(calls[i].reqs[j]).Error = PanicError

\* C9: the Loader is never poisoned: after an invocation that failed (a
\* panic, a result-count mismatch, or error Results) the Loader is still
\* running, and when it has come to rest the requests made since have their
\* Results too.
FailedCall(i) ==
    /\ calls[i].keys # << >>
    /\ batchFn \in {"panic", "faulty", "error"}
C9_NeverPoisoned ==
    (\E i \in Calls : FailedCall(i)) =>
      /\ ~crashed
      /\ Quiescent => \A r \in Reqs : reqs[r].closed

\* C10: the error of a batch-function panic is not memoized: after the
\* panic the Loader is running, and once a Thunk of the panicked invocation
\* has been invoked the cache no longer holds it, so that the next Load of
\* its key is batched again.
C10_PanicNotMemoized ==
    \A i \in Calls :
      (batchFn = "panic" /\ calls[i].keys # << >>) =>
        /\ ~crashed
        /\ \A x \in rets :
             (\E j \in 1..Len(calls[i].reqs) : calls[i].reqs[j] = x.thunk) =>
               cache[Key(x.thunk)] # x.thunk


\* C11: an error Result is memoized like a success (no Clear): with the
\* batch function that returns an error for every key, a request that got
\* its Result got the key's error and its Thunk is still the cache entry of
\* the key; every Load of the key returned that one Thunk, every invocation
\* of it returned that error, and the key was passed to the batch function
\* at most once.
C11_ErrorMemoized ==
    batchFn = "error" =>
      \A r \in Reqs :
        /\ Outcome(r) # NilResult =>
             Outcome(r) = Result(Key(r), TestError) /\ cache[Key(r)] = r
        /\ \A p \in Callers : \A t \in held[p] : Key(t) = Key(r) => t = r
        /\ \A x \in rets : x.thunk = r => x.result = Result(Key(r), TestError)
        /\ Entries(Key(r)) <= 1

\* C11 witness: one caller loaded a key twice and got one Thunk, both
\* invocations of it returned the key's error, the batch function was invoked
\* once, and the Thunk is still cached.
C11_Witness ==
    /\ batchFn = "error" /\ OneCaller
    /\ nloads[1] = 2 /\ pc[1] = "idle" /\ held[1] = {1}
    /\ ncalls = 0 /\ rets = {[thunk |-> 1, result |-> Result(Key(1), TestError)]}
    /\ Len(calls) = 1 /\ cache[Key(1)] = 1

\* C12: a per-key error stays with its key: when the batch function returns
\* an error at the first position and error-free Results at the others, the
\* request at the first position gets that error and every other request of
\* the invocation gets its own key's data with no error, from its channel
\* and from every invocation of its Thunk.
C12_ErrorIsolated ==
    batchFn = "oneerror" =>
      \A i \in Calls : \A j \in 1..Len(calls[i].reqs) :
        LET r == calls[i].reqs[j]
            want == Result(Key(r), IF j = 1 THEN OneError ELSE NoError)
        IN /\ reqs[r].closed => Outcome(r) = want
           /\ \A x \in rets : x.thunk = r => x.result = want

\* C12 witness: an invocation with two keys whose first request holds the
\* error and whose second request's Thunk returned its data with no error.
C12_Witness ==
    /\ batchFn = "oneerror"
    /\ \E i \in Calls :
         /\ Len(calls[i].reqs) = 2
         /\ Outcome(calls[i].reqs[1]).Error = OneError
         /\ [thunk |-> calls[i].reqs[2],
             result |-> Result(Key(calls[i].reqs[2]), NoError)] \in rets

\* C17: with the default cache and no Clear or ClearAll a Thunk stays cached
\* across windows: every Thunk a Load made is still the cache entry of its
\* key, whether or not its window was dispatched, so there is one request
\* per key and every key is passed to the batch function at most once in the
\* Loader's lifetime.
C17_CachedAcrossWindows ==
    /\ \A r \in Reqs : cache[Key(r)] = r
    /\ \A r, q \in Reqs : Key(r) = Key(q) => r = q
    /\ \A i, j \in Calls : \A m \in 1..Len(calls[i].keys), n \in 1..Len(calls[j].keys) :
         calls[i].keys[m] = calls[j].keys[n] => i = j /\ m = n

\* C17 witness: a caller has loaded two keys that went to the batch function
\* in two windows and then loaded one of them again: it holds two Thunks
\* after three Loads and there is no third request.
C17_Witness ==
    /\ OneCaller /\ nloads[1] = 3 /\ pc[1] = "idle"
    /\ held[1] = {1, 2} /\ Len(reqs) = 2
    /\ Len(calls) = 2 /\ calls[1].keys # << >> /\ calls[2].keys # << >>
    /\ reqs[1].closed /\ reqs[2].closed

\* C18: a Thunk resolves once and never blocks for good: all its
\* invocations, concurrent or not, return the same Result, which is the one
\* delivered to its request and is stored in the Thunk; a caller that
\* receives after the Thunk has resolved finds the channel closed; and when
\* the Loader has come to rest no caller is left waiting in a Thunk for a
\* Result that is not there.
C18_ThunkResolvesOnce ==
    \A t \in Reqs :
      /\ \A x, y \in rets : x.thunk = t /\ y.thunk = t => x.result = y.result
      /\ \A x \in rets :
           x.thunk = t => x.result # NilResult /\ thunks[t].value = x.result
      /\ \A p \in Callers :
           (pc[p] = "trecv" /\ local[p].thunk = t) =>
             /\ thunks[t].value # NilResult => reqs[t].closed
             /\ Quiescent => reqs[t].closed

\* C20: results go to requests by position: for every invocation whose
\* result list is as long as its key list, the request whose key was at
\* index j got the Result at index j, from its channel and from every
\* invocation of its Thunk, and got a Result of another index only if that
\* is the same Result.
C20_PositionalResults ==
    \A i \in Calls :
      LET res == BatchFnResults(batchFn, calls[i].keys) IN
        Len(res) = Len(calls[i].keys) =>
          \A j \in 1..Len(calls[i].reqs) :
            /\ reqs[calls[i].reqs[j]].closed => Outcome(calls[i].reqs[j]) = res[j]
            /\ \A x \in rets : x.thunk = calls[i].reqs[j] => x.result = res[j]
            /\ \A m \in 1..Len(res) :
                 (reqs[calls[i].reqs[j]].closed /\ Outcome(calls[i].reqs[j]) = res[m]) =>
                   res[m] = res[j]

\* C20 witness: an invocation with two keys and two results whose second
\* request's Thunk returned the second result.
C20_Witness ==
    \E i \in Calls :
      /\ Len(calls[i].keys) = 2
      /\ Len(BatchFnResults(batchFn, calls[i].keys)) = 2
      /\ reqs[calls[i].reqs[1]].closed
      /\ [thunk |-> calls[i].reqs[2],
          result |-> BatchFnResults(batchFn, calls[i].keys)[2]] \in rets

\* Request r was passed to the batch function (in some invocation).
Dispatched(r) ==
    \E i \in Calls : \E j \in 1..Len(calls[i].reqs) : calls[i].reqs[j] = r

\* C13: Prime(key, v) on a key with no entry, then Load(key): Prime's insert
\* puts its future into the cache, a Load that finds the future returns it
\* and makes no request, so that the key is not passed to the batch function
\* for that Load, and every invocation of the future returns v with no error.
C13_PrimedLoadHits ==
    /\ [][\A p \in Callers :
            /\ (PrimeSet(p) /\ cache[local[p].key] = 0) =>
                 cache'[local[p].key] = PrimedThunk(local[p].key)
            /\ \A k \in Keys :
                 (LoadGet(p, k) /\ cache[k] = PrimedThunk(k)) =>
                   /\ held'[p] = held[p] \cup {PrimedThunk(k)}
                   /\ pc'[p] = "idle" /\ reqs' = reqs /\ chans' = chans]_vars
    /\ [](\A x \in rets : x.thunk < 0 =>
            x.result = [Data |-> NumKeys - x.thunk, Error |-> NoError])

\* C13 witness: as in the test "allows primed cache": a caller primed a key,
\* loaded another key and the primed key, and invoked both Thunks; the batch
\* function was invoked once, with the other key only.
C13_Witness ==
    \E k \in Keys :
      /\ OneCaller /\ nloads[1] = 3 /\ pc[1] = "idle"
      /\ held[1] = {1, PrimedThunk(k)} /\ Key(1) # k
      /\ rets = {[thunk |-> 1, result |-> Result(Key(1), NoError)],
                 [thunk |-> PrimedThunk(k), result |-> PrimedValue(k)]}
      /\ Len(reqs) = 1 /\ Len(calls) = 1 /\ calls[1].keys = << Key(1) >>

\* C14: Prime never overwrites: the insert of Prime happens only when the
\* key has no cache entry, in every interleaving with Loads of the key.
C14_PrimeNeverOverwrites ==
    [][\A p \in Callers : PrimeSet(p) => cache[local[p].key] = 0]_vars

\* C15: Clear(key) then Load(key): Clear leaves the key without an entry, a
\* Load that finds no entry misses, and the miss makes a new Thunk and a new
\* request for the key; a request gets its Result only from an invocation of
\* the batch function it was passed to, and it is the identity's result for
\* its key.
C15_ClearThenLoadMisses ==
    /\ [][\A p \in Callers :
            /\ \A k \in Keys :
                 /\ Clear(p, k) => cache'[k] = 0
                 /\ (LoadGet(p, k) /\ cache[k] = 0) =>
                      pc'[p] = "set" /\ local'[p].key = k
            /\ LoadSet(p) =>
                 /\ Len(reqs') = Len(reqs) + 1
                 /\ reqs'[Len(reqs')] =
                      [key |-> local[p].key, buf |-> NilResult, closed |-> FALSE]
                 /\ cache'[local[p].key] = Len(reqs')]_vars
    /\ [](\A r \in Reqs :
            /\ reqs[r].closed => Dispatched(r) /\ Outcome(r) = Result(Key(r), NoError)
            /\ \A x \in rets : x.thunk = r => x.result = Result(Key(r), NoError))

\* C15 witness: a caller loaded two keys, cleared the first and loaded it
\* again: after four calls there are two requests for the first key, the
\* second key is still cached, the batch function was passed both requests
\* of the first key, in two invocations, and both Thunks returned the key.
C15_Witness ==
    /\ OneCaller /\ nloads[1] = 4 /\ pc[1] = "idle"
    /\ Len(reqs) = 3 /\ Key(1) = Key(3) /\ Key(2) # Key(1)
    /\ cache[Key(2)] = 2 /\ cache[Key(1)] = 3
    /\ \E i, j \in Calls : i # j /\ calls[i].reqs = << 1 >> /\ calls[j].reqs = << 3 >>
    /\ rets = {[thunk |-> 1, result |-> Result(Key(1), NoError)],
               [thunk |-> 3, result |-> Result(Key(1), NoError)]}

\* C16: ClearAll leaves no key with a cache entry, whether it was cached by
\* a Load or primed; a Load that then finds no entry misses and makes a
\* request, and every request that reached an input channel and whose
\* window was invoked is among the keys passed to the batch function.
C16_ClearAllEmptiesCache ==
    /\ [][\A p \in Callers :
            /\ ClearAll(p) => \A k \in Keys : cache'[k] = 0
            /\ \A k \in Keys :
                 (LoadGet(p, k) /\ cache[k] = 0) => cacheLock' = p /\ held' = held]_vars
    /\ [](\A i \in Calls : calls[i].keys = KeysOf(calls[i].reqs))

\* C16 witness: a caller loaded two keys, called ClearAll and loaded the
\* first key again: after four calls neither of the first two Thunks is
\* cached, the first key has a second request, which is its cache entry, and
\* that request was passed to the batch function.
C16_Witness ==
    /\ OneCaller /\ nloads[1] = 4 /\ pc[1] = "idle"
    /\ Len(reqs) = 3 /\ Key(1) = Key(3) /\ Key(2) # Key(1)
    /\ cache[Key(2)] = 0 /\ cache[Key(1)] = 3
    /\ Dispatched(3)

\* C19: the keys passed to the batch function in one invocation are unique,
\* whatever Loads, Clears, ClearAlls and Primes were issued in the window.
C19_UniqueKeys ==
    \A i \in Calls : \A m, n \in 1..Len(calls[i].keys) :
      calls[i].keys[m] = calls[i].keys[n] => m = n

\* C25: one window is open at a time and one batch goroutine (and one
\* sleeper) runs per window: a batch goroutine is started only when no window
\* is open, no two sleepers wait for the end of a window at once, and no two
\* batch goroutines receive from the same input channel.
C25_OneBatchPerWindow ==
    /\ Cardinality({b \in Batches : sleepers[b] = "select"}) <= 1
    /\ \A a, b \in Batches :
         (/\ batches[a].pc = "recv" /\ batches[b].pc = "recv"
          /\ batches[a].ch = batches[b].ch) => a = b


\* C26: sealing a window and swapping in the next one is one atomic step for
\* the Loads: the Loader's input channel is never a closed one, every send of
\* a Load goes to an open channel and does not panic, and a closed channel
\* gets no further request.
C26_SealSwapAtomic ==
    /\ [](\A c \in Chans : chans[c].closed => c # input)
    /\ [][/\ \A p \in Callers :
               LoadSend(p) => ~chans[input].closed /\ ~crashed'
          /\ \A c \in Chans : chans[c].closed => chans'[c].q = chans[c].q]_vars

\* C26 witness: a window was sealed by its timer while a Load of the other
\* caller was between its insert and its send, and that Load has since sent
\* its request on the next channel and returned.
C26_Witness ==
    /\ TwoCallers /\ ~crashed
    /\ Len(chans) = 2 /\ chans[1].by = "timer"
    /\ Len(chans[1].q) = 1 /\ Len(chans[2].q) = 1
    /\ Len(batches) = 1
    /\ \A p \in Callers : pc[p] = "idle" /\ nloads[p] = 1

\* C27: Load returns without waiting: a Load that has reached the batch
\* capacity and signals the forced start finds a sleeper waiting to receive
\* the signal, also when the timer has already sealed the window it enqueued
\* into.
C27_LoadNeverWaits ==
    \A p \in Callers :
      pc[p] = "force" => \E b \in Batches : sleepers[b] = "select"

\* C28: a Load is not held up by a batch function that is still executing,
\* and at most one dispatch is ever active per window: while an invocation
\* with keys is under way no Load waits to hand over the forced start, and no
\* two such invocations under way are for the same input channel.
C28_NextWindowWhileDispatching ==
    \A a \in Batches :
      (batches[a].pc = "deliver" /\ batches[a].reqs # << >>) =>
        /\ \A p \in Callers :
             pc[p] = "force" => \E b \in Batches : sleepers[b] = "select"
        /\ \A b \in Batches :
             (/\ batches[b].pc = "deliver" /\ batches[b].reqs # << >>
              /\ batches[b].ch = batches[a].ch) => a = b

\* C21: with NoCache every cache method is a no-op and nothing is memoized:
\* the cache never holds an entry, Prime, Clear and ClearAll change nothing,
\* no Load returns a primed future, every Load (of a primed key, of a key
\* loaded before) misses and makes a new request, which it sends on the input
\* channel, and a request gets its Result from an invocation of the batch
\* function it was passed to.
C21_NoCacheNoops ==
    /\ [](noCache =>
            /\ \A k \in Keys : cache[k] = 0
            /\ \A p \in Callers : \A t \in held[p] : t > 0
            /\ \A r \in Reqs :
                 reqs[r].closed => Dispatched(r) /\ Outcome(r) = Result(Key(r), NoError))
    /\ [][noCache =>
            \A p \in Callers :
              /\ \A k \in Keys :
                   /\ LoadGet(p, k) => pc'[p] = "set" /\ local'[p].key = k
                   /\ (PrimeGet(p, k) \/ Clear(p, k)) =>
                        UNCHANGED << cache, reqs, chans, held, calls >>
              /\ (PrimeSet(p) \/ ClearAll(p)) =>
                   UNCHANGED << cache, reqs, chans, held, calls >>
              /\ LoadSet(p) => Len(reqs') = Len(reqs) + 1
              /\ LoadSend(p) =>
                   chans'[input].q = Append(chans[input].q, local[p].thunk)]_vars

\* C21 witness: with NoCache a caller loaded the same key twice and is now
\* priming it: Prime found no entry, there are two requests for the key, and
\* both were passed to the batch function in one invocation.
C21_Witness ==
    /\ noCache /\ OneCaller
    /\ nloads[1] = 3 /\ pc[1] = "prime"
    /\ Len(reqs) = 2 /\ local[1].key = Key(1) /\ Key(2) = Key(1)
    /\ Len(calls) = 1 /\ calls[1].reqs = << 1, 2 >>
    /\ reqs[1].closed /\ reqs[2].closed

\* C29: with clear-on-batch, a Load of a key that has a cache entry returns
\* the cached Thunk and makes no request (duplicates inside a window are one
\* entry of the invocation); delivering a dispatch's results leaves no cache
\* entry for its keys, so no request that has its Result is still cached; and
\* a Load that then finds no entry misses and is batched again.
C29_ClearedAfterDelivery ==
    /\ [](clearCacheOnBatch =>
            \A r \in Reqs : reqs[r].closed => cache[Key(r)] # r)
    /\ [][clearCacheOnBatch =>
            /\ \A b \in Batches :
                 (BatchDeliver(b) /\ ~crashed') =>
                   \A i \in 1..Len(batches[b].reqs) : cache'[Key(batches[b].reqs[i])] = 0
            /\ \A p \in Callers, k \in Keys :
                 /\ (LoadGet(p, k) /\ cache[k] # 0) =>
                      /\ held'[p] = held[p] \cup {cache[k]}
                      /\ pc'[p] = "idle" /\ reqs' = reqs /\ chans' = chans
                 /\ (LoadGet(p, k) /\ cache[k] = 0) =>
                      pc'[p] = "set" /\ local'[p].key = k]_vars

\* C29 witness: as in the test of WithClearCacheOnBatch and one Load more: a
\* caller loaded a key twice and got one Thunk, the one invocation had the
\* key once and was delivered, and the third Load of the key made a second
\* request, which is now the key's cache entry and was dispatched too.
C29_Witness ==
    /\ clearCacheOnBatch /\ OneCaller
    /\ nloads[1] = 3 /\ pc[1] = "idle" /\ held[1] = {1, 2}
    /\ Len(reqs) = 2 /\ Key(2) = Key(1)
    /\ Len(calls) = 2 /\ calls[1].reqs = << 1 >> /\ calls[2].reqs = << 2 >>
    /\ reqs[1].closed /\ cache[Key(1)] = 2

\* The goroutines of LoadMany whose Thunk returned a Result with an error.
ManyFailed == {i \in Routines : pc[i] \in {"merr", "mapp", "mdat", "mend"}
                                  /\ ManyResult(i).Error # NoError}

\* C22: the ThunkMany resolves only after the Thunk of every key has
\* resolved, and its data list goes by position: when the ResultMany is there
\* every goroutine i has loaded keys[i], its Thunk holds a Result, and
\* data[i] is that Result's data (keys[i] itself with the identity batch
\* function), in whatever order the Loads were enqueued and resolved.
C22_ManyPositionAligned ==
    many.c # NoResultMany =>
      /\ many.ret \in {NoResultMany, many.c}
      /\ Len(many.c.Data) = Len(many.keys)
      /\ \A i \in Routines :
           /\ held[i] # {}
           /\ \A t \in held[i] :
                /\ Key(t) = many.keys[i]
                /\ thunks[t].value # NilResult
                /\ many.c.Data[i] = thunks[t].value.Data
           /\ batchFn = "identity" => many.c.Data[i] = many.keys[i]

\* C22 witness: LoadMany of two keys with the identity batch function whose
\* second key was enqueued first: the ThunkMany returned the data in the
\* order of the keys.
C22_Witness ==
    /\ batchFn = "identity" /\ many.keys = << 1, 2 >>
    /\ Len(reqs) = 2 /\ Key(1) = 2 /\ Key(2) = 1
    /\ many.ret # NoResultMany /\ many.ret.Data = << 1, 2 >>

\* C23: LoadMany loses no error: when the ThunkMany has returned, its error
\* list has one entry for every key whose Result has an error, tagged with
\* the index of that key, in every interleaving of the goroutines.
C23_ManyReportsEveryError ==
    many.ret # NoResultMany =>
      /\ Len(many.ret.Error) = Cardinality(ManyFailed)
      /\ {many.ret.Error[j].index : j \in 1..Len(many.ret.Error)} = ManyFailed
      /\ \A j \in 1..Len(many.ret.Error) :
           many.ret.Error[j].index \in Routines =>
             many.ret.Error[j].error = ManyResult(many.ret.Error[j].index).Error

\* C24: the error list of a ThunkMany goes by position: when no key failed
\* it is empty, and when a key failed it has as many entries as there are
\* keys, with an error at the positions of the keys that failed and none at
\* the others.  This is stated for the calls in which no append lost an
\* error (C23).
C24_ManyErrorsAligned ==
    (many.ret # NoResultMany /\ Len(many.ret.Error) = Cardinality(ManyFailed)) =>
      IF ManyFailed = {}
        THEN many.ret.Error = << >>
        ELSE /\ Len(many.ret.Error) = Len(many.keys)
             /\ \A i \in 1..Len(many.ret.Error) :
                  (many.ret.Error[i].error # NoError) <=> (i \in ManyFailed)

C32_QueuedRequestHasBatch ==
    chans[input].rcv < Len(chans[input].q) =>
      /\ batching
      /\ \E b \in Batches :
           /\ sleepers[b] # "done"
           /\ \/ batches[b].pc = "range"
              \/ batches[b].pc = "recv" /\ batches[b].ch = input

\* The requests of channel c that were sent on it: its window.
Window(c) == {chans[c].q[j] : j \in 1..Len(chans[c].q)}

\* C33: every enqueued request is handed to exactly one invocation of the
\* batch function: no request is in the lists of two invocations or twice in
\* one, a request gets a Result only from an invocation it was passed to, its
\* channel is closed only after the send, and once the Loader has come to rest
\* every request that was sent on an input channel was passed to an
\* invocation and its channel has got its send and its close.
C33_HandedToOneInvocation ==
    /\ \A i, j \in Calls : \A m \in 1..Len(calls[i].reqs), n \in 1..Len(calls[j].reqs) :
         calls[i].reqs[m] = calls[j].reqs[n] => i = j /\ m = n
    /\ \A r \in Reqs : reqs[r].closed => Dispatched(r) /\ Outcome(r) # NilResult
    /\ Quiescent =>
         \A c \in Chans : \A r \in Window(c) : Dispatched(r) /\ reqs[r].closed

\* C34: the batch function is never invoked with an empty key list.
C34_NeverEmptyKeys ==
    \A i \in Calls : calls[i].keys # << >>

\* C36: with a batch capacity the size counter is the number of requests
\* enqueued into the open window: it never exceeds the capacity, and it is 0
\* when no window is open and no Load is under way.
C36_CountIsWindowSize ==
    batchCap > 0 =>
      /\ count <= batchCap
      /\ (~batching /\ \A p \in Callers : pc[p] = "idle") => count = 0

\* C37: every background goroutine ends: once the Loader has come to rest
\* (no goroutine of it can take a step) every batch goroutine has invoked the
\* batch function and returned; none is left receiving from an input channel
\* that nobody will close.
C37_BackgroundTasksEnd ==
    Quiescent => \A b \in Batches : batches[b].pc = "done"

\* C35: a forced-start signal seals only the window in which the capacity
\* was reached: the sleeper that receives the signal of a Load is the timer of
\* the window that Load enqueued into, so the channel it will close is the one
\* the Load's request was sent on, never the channel of a later window.  (That
\* a signalling Load finds a receiver at all is the property of C27.)
C35_ForceSealsOwnWindow ==
    [][\A p \in Callers, b \in Batches :
         LoadForce(p, b) => local[p].thunk \in Window(input)]_vars

\* C38: a Load that hits the cache returns the cached Thunk, resolved or
\* not, and has no other effect: it makes no request and sends none, starts
\* no batch goroutine and no sleeper, leaves batching, the size counter, the
\* cache and cacheLock as they are, signals no sleeper, and the Thunk's
\* result cell is untouched.
C38_CacheHitNoEffect ==
    [][\A p \in Callers, k \in Keys :
         (LoadGet(p, k) /\ cache[k] # 0) =>
           /\ held'[p] = held[p] \cup {cache[k]}
           /\ pc'[p] = "idle"
           /\ UNCHANGED << cache, cacheLock, batching, count, input, chans, reqs,
                           thunks, batches, sleepers, calls, rets >>]_vars

\* C38 witness: a caller loaded a key and loaded it again while the first
\* request was still in the input channel (its Thunk pending): it holds the
\* one Thunk, there is one request, sent once, and one batch goroutine.
C38_Witness ==
    /\ OneCaller /\ nloads[1] = 2 /\ pc[1] = "idle" /\ held[1] = {1}
    /\ Len(reqs) = 1 /\ ~reqs[1].closed /\ cache[Key(1)] = 1
    /\ Len(chans) = 1 /\ chans[1].q = << 1 >> /\ chans[1].rcv = 0
    /\ Len(batches) = 1 /\ calls = << >>

\* C39: Clear and ClearAll change only the cache (Clear only the entry of
\* its key): the input channels and their requests, batching, the size
\* counter, the goroutines, the Thunks the callers hold and their result
\* cells are as before; and a Thunk returns the Result of the request it was
\* made for, the identity's result for its key, whether or not its key was
\* cleared or loaded again since.
C39_ClearOnlyChangesCache ==
    /\ [][\A p \in Callers :
            /\ \A k \in Keys :
                 Clear(p, k) =>
                   /\ \A j \in Keys : j # k => cache'[j] = cache[j]
                   /\ UNCHANGED << cacheLock, batching, count, input, chans, reqs,
                                   thunks, batches, sleepers, held, calls, rets >>
            /\ ClearAll(p) =>
                 UNCHANGED << cacheLock, batching, count, input, chans, reqs,
                              thunks, batches, sleepers, held, calls, rets >>]_vars
    /\ [](\A x \in rets :
            x.thunk > 0 =>
              /\ x.result = Result(Key(x.thunk), NoError)
              /\ x.result = Outcome(x.thunk))

\* C39 witness: a caller loaded two keys, cleared the first while both
\* requests were pending, and then invoked the Thunk it had got for the
\* cleared key: the Thunk returned that key's Result, and the other key is
\* still cached.
C39_Witness ==
    /\ OneCaller /\ nloads[1] = 3 /\ pc[1] = "idle" /\ held[1] = {1, 2}
    /\ Len(reqs) = 2 /\ Key(1) # Key(2)
    /\ cache[Key(1)] = 0 /\ cache[Key(2)] = 2
    /\ Len(calls) = 1 /\ calls[1].reqs = << 1, 2 >>
    /\ [thunk |-> 1, result |-> Result(Key(1), NoError)] \in rets

\* C40: the Thunk of the condition-variable Load has no lost wake-up: an
\* invocation returns once the Result was delivered, whether it began
\* before, after or during the delivery and its broadcast.  In finite form:
\* once the receiver goroutine has broadcast and ended, which it does once,
\* no invocation is suspended in cond.Wait, where nothing would wake it.
C40_NoLostWakeup ==
    cv.rpc = "done" => cv.waiters = {}

=============================================================================
